---- MODULE Spec2Model ----
(***************************************************************************)
(* Model of the portfolio rebalancer (src/portfolio.py, src/app.py).       *)
(*                                                                         *)
(* Numbers.  The program computes with floats; the model computes with     *)
(* exact rationals held as integers on fixed grids:                        *)
(*   - a share count h stands for h / (100 * UnitsPerCent) shares;         *)
(*   - a price p is a whole number of currency units per share, so the     *)
(*     value of h share-units is h * p value-units, UnitsPerCent of which  *)
(*     make one cent (0.01);                                               *)
(*   - a target dict holds fractions val[s] / den over a common            *)
(*     denominator den, so 1.0 is den / den;                               *)
(*   - an order's amount_in_dollars is a whole number of cents, as         *)
(*     round(x, 2) leaves it.                                              *)
(* Prices are drawn from the divisors of UnitsPerCent (and 0), so that     *)
(* amount / price is exact on the share grid.                              *)
(*                                                                         *)
(* Objects.  Python dicts are objects: hdicts and tdicts are the heaps of  *)
(* holdings dicts and target-allocation dicts, and an engine holds the     *)
(* index (the reference) of its dicts, as self.holdings = initial_holdings *)
(* and self.target_allocation = target_allocation store references.        *)
(* A target dict keeps its insertion order (keys); a holdings dict is      *)
(* only read through get() and a commutative sum, so its order is left out.*)
(***************************************************************************)
EXTENDS Integers, Sequences, FiniteSets, TLC

VARIABLES
    stock_objects,   \* registry: symbol -> price (ALL_STOCKS, shared by every engine)
    hdicts,          \* heap of holdings dicts: Seq of [symbols -> share-units]
    tdicts,          \* heap of target dicts: Seq of [keys, val, den]
    engines,         \* constructed Portfolio objects: Seq of [target, holdings] references
    rebalance_plan,  \* the caller's variable for the last plan returned: <<plan>>, or <<>> for None
    last,            \* the last call made and how it ended
    nops             \* number of calls made so far

vars == <<stock_objects, hdicts, tdicts, engines, rebalance_plan, last, nops>>

\* ---------------------------------------------------------------- bounds

\* calls made in one run
MaxOps == 4

\* Portfolio objects built in one run
MaxEngines == 2

\* ------------------------------------------------------- numeric grids

\* value-units per cent: the grid resolves half cents
UnitsPerCent == 2

\* the dead-band 0.01 of create_rebalance_plan, in cents
DeadBandCents == 1

\* the tolerance 1e-9 on the allocation sum, as the ratio 1 / TolInverse
TolInverse == 10 ^ 9

\* ------------------------------------------------------------- symbols

StockOrder == <<"A", "B", "C">>

Symbols == {StockOrder[i] : i \in 1..Len(StockOrder)}

UnknownSymbol == "X"

AllSymbols == Symbols \cup {UnknownSymbol}

\* rebalance_plan = None: the caller holds no plan
NoPlan == <<>>

\* {} as a holdings dict
EmptyDict == [s \in {} |-> 0]

\* ---------------------------------------------------------- dict helpers

DictGet(d, k, default) == IF k \in DOMAIN d THEN d[k] ELSE default

DictSet(d, k, v) == [x \in (DOMAIN d) \cup {k} |-> IF x = k THEN v ELSE d[x]]

SeqToSet(s) == {s[i] : i \in 1..Len(s)}

Abs(x) == IF x < 0 THEN -x ELSE x

Max(a, b) == IF a >= b THEN a ELSE b

RECURSIVE SetToSeqOf(_)
\* the elements of a finite set, in some order
SetToSeqOf(S) ==
    IF S = {} THEN <<>>
    ELSE LET x == CHOOSE y \in S : TRUE IN <<x>> \o SetToSeqOf(S \ {x})

RECURSIVE SumVals(_, _)
\* sum(target_allocation.values()), in units of 1/den
SumVals(keys, val) ==
    IF keys = <<>> THEN 0 ELSE val[Head(keys)] + SumVals(Tail(keys), val)

\* round(x, 2) for x = n / m cents >= 0: to the nearest cent, ties to even
RoundHalfEven(n, m) ==
    LET q == n \div m
        r == n % m
    IN  IF 2 * r < m THEN q
        ELSE IF 2 * r > m THEN q + 1
        ELSE IF q % 2 = 0 THEN q ELSE q + 1

\* ------------------------------------------------------------ Portfolio

RECURSIVE SumValue(_, _)
SumValue(h, syms) ==
    IF syms = {} THEN 0
    ELSE LET s == CHOOSE x \in syms : TRUE
         IN  h[s] * stock_objects[s] + SumValue(h, syms \ {s})

\* faulty variant of get_total_value: the shares are summed, their prices forgotten
total_of_shares(h) == SumVals(SetToSeqOf(DOMAIN h), h)

\* Portfolio.get_total_value, in value-units
get_total_value(h) == SumValue(h, DOMAIN h)

\* the registry symbols missing from a target dict, in registry order
MissingKeys(t) == SelectSeq(StockOrder, LAMBDA s : s \notin SeqToSet(t.keys))

\* faulty variant of Backfill: the target dict is left as the caller wrote it
BackfillNothing(t) == t

\* create_rebalance_plan's backfill: every registry symbol absent from the target gets 0.0
Backfill(t) ==
    [keys |-> t.keys \o MissingKeys(t),
     val  |-> [s \in SeqToSet(t.keys) \cup Symbols |->
                  IF s \in SeqToSet(t.keys) THEN t.val[s] ELSE 0],
     den  |-> t.den]

\* value_difference of one symbol, in units of 1 / (den * UnitsPerCent) cents
ValueDifference(t, h, total, s) ==
    total * t.val[s] - DictGet(h, s, 0) * stock_objects[s] * t.den

\* faulty variant of WantsBuy: the dead-band's edge counts as a buy
WantsBuyAtEdge(t, d) == d >= DeadBandCents * UnitsPerCent * t.den

\* value_difference > 0.01
WantsBuy(t, d) == d > DeadBandCents * UnitsPerCent * t.den

\* value_difference < -0.01
WantsSell(t, d) == d < -(DeadBandCents * UnitsPerCent * t.den)

Order(s, cents) == [symbol |-> s, amount_in_dollars |-> cents]

RECURSIVE PlanLoop(_, _, _, _, _)
\* create_rebalance_plan's loop over target_allocation.items(), in insertion order
PlanLoop(keys, t, h, total, actions) ==
    IF keys = <<>> THEN actions
    ELSE LET s == Head(keys)
             d == ValueDifference(t, h, total, s)
             amt == RoundHalfEven(Abs(d), t.den * UnitsPerCent)
             next == IF WantsBuy(t, d)
                        THEN [actions EXCEPT !.buy = Append(@, Order(s, amt))]
                     ELSE IF WantsSell(t, d)
                        THEN [actions EXCEPT !.sell = Append(@, Order(s, amt))]
                     ELSE actions
         IN  PlanLoop(Tail(keys), t, h, total, next)

\* the plan create_rebalance_plan returns for target dict t and holdings h
PlanOf(t, h) ==
    LET total == get_total_value(h)
        empty == [buy |-> <<>>, sell |-> <<>>]
    IN  IF total = 0 THEN empty
        ELSE PlanLoop(Backfill(t).keys, Backfill(t), h, total, empty)

\* the target dict create_rebalance_plan leaves behind
TargetAfterPlan(t, h) == IF get_total_value(h) = 0 THEN t ELSE Backfill(t)

\* ------------------------------------------------------ execute_rebalance

Tagged(side, orders) ==
    [i \in 1..Len(orders) |->
        [side |-> side, symbol |-> orders[i].symbol,
         amount |-> orders[i].amount_in_dollars]]

\* faulty variant of ExecutionOrder: the buys are walked before the sells
ExecutionOrderBuyFirst(plan) == Tagged("buy", plan.buy) \o Tagged("sell", plan.sell)

\* the order in which execute_rebalance walks the plan: every sell, then every buy
ExecutionOrder(plan) == Tagged("sell", plan.sell) \o Tagged("buy", plan.buy)

\* faulty variant of SharesFor: the amount is taken for a share count, the price forgotten
SharesForAmount(amount, price) == amount * UnitsPerCent

\* amount / price, in share-units
SharesFor(amount, price) == (amount * UnitsPerCent) \div price

\* faulty variant of ApplySell: the subtraction without max(0.0, ...)
ApplySellUnclamped(h, s, amount) ==
    LET price == stock_objects[s]
    IN  IF price > 0
           THEN DictSet(h, s, DictGet(h, s, 0) - SharesFor(amount, price))
           ELSE h

\* execute_rebalance's sell loop body: one sell order
ApplySell(h, s, amount) ==
    LET price == stock_objects[s]
    IN  IF price > 0
           THEN DictSet(h, s, Max(0, DictGet(h, s, 0) - SharesFor(amount, price)))
           ELSE h

\* execute_rebalance's buy loop body: one buy order
ApplyBuy(h, s, amount) ==
    LET price == stock_objects[s]
    IN  IF price > 0
           THEN DictSet(h, s, DictGet(h, s, 0) + SharesFor(amount, price))
           ELSE h

ApplyOrder(h, o) ==
    IF o.side = "sell" THEN ApplySell(h, o.symbol, o.amount)
                       ELSE ApplyBuy(h, o.symbol, o.amount)

RECURSIVE ApplyAll(_, _)
\* the holdings dict after the orders of a walk have been applied in turn
ApplyAll(h, orders) ==
    IF orders = <<>> THEN h
    ELSE ApplyAll(ApplyOrder(h, Head(orders)), Tail(orders))

\* what the i-th order of a walk did: skipped (price <= 0), clamped at 0, or applied
Outcome(h, orders, i) ==
    LET o == orders[i]
        before == ApplyAll(h, SubSeq(orders, 1, i - 1))
        price == stock_objects[o.symbol]
    IN  [side |-> o.side, symbol |-> o.symbol, amount |-> o.amount,
         skipped |-> ~(price > 0),
         clamped |-> /\ price > 0
                     /\ o.side = "sell"
                     /\ DictGet(before, o.symbol, 0) < SharesFor(o.amount, price)]

ExecutionTrace(h, plan) ==
    [i \in 1..Len(ExecutionOrder(plan)) |-> Outcome(h, ExecutionOrder(plan), i)]

\* the holdings dict execute_rebalance leaves
execute_rebalance(h, plan) == ApplyAll(h, ExecutionOrder(plan))

\* ----------------------------------------------------------------- inputs

Reg(a, b, c) == [s \in Symbols |-> IF s = "A" THEN a ELSE IF s = "B" THEN b ELSE c]

\* the registries tried: prices per share, 0 included (a worthless instrument)
RegistryInputs == {Reg(2, 1, 1), Reg(1, 2, 0)}

TDict(keys, vals, den) ==
    [keys |-> keys,
     val  |-> [s \in SeqToSet(keys) |->
                 vals[CHOOSE i \in 1..Len(keys) : keys[i] = s]],
     den  |-> den]

\* the target dicts a caller passes to Portfolio(...): fractions in [0, 1] over den
TargetInputs ==
    {TDict(<<"A", "B">>, <<5, 5>>, 10),
     TDict(<<"B", "A", "C">>, <<3, 5, 2>>, 10),
     TDict(<<"C", "A">>, <<0, 4>>, 4),
     TDict(<<"A", "B">>, <<9, 1>>, 10),
     TDict(<<"A", "B">>, <<5, 4>>, 10),
     TDict(<<"A", "X">>, <<5, 5>>, 10)}

InitShares == {0, 1, 2, 8}

\* a holdings dict written out: symbols and their share counts, in turn
HDict(keys, vals) ==
    [s \in SeqToSet(keys) |-> vals[CHOOSE i \in 1..Len(keys) : keys[i] = s]]

\* the initial_holdings dicts a caller passes: non-negative share counts of registry
\* symbols (an entry of 0.0 included): {}, every one-symbol dict, and some larger ones
HoldingInputs ==
    {EmptyDict}
    \cup {HDict(<<s>>, <<n>>) : s \in Symbols, n \in InitShares}
    \cup {HDict(<<"B", "C">>, <<1, 2>>),
          HDict(<<"A", "C">>, <<8, 8>>),
          HDict(<<"A", "B", "C">>, <<8, 2, 1>>)}

\* the shares a caller deposits: negative, zero and positive
DepositShares == {-2, 0, 2}

NoCall ==
    [op |-> "none", engine |-> 0, t |-> 0, h |-> 0, symbol |-> "", shares |-> 0,
     raised |-> "", fresh |-> FALSE, trace |-> <<>>]

\* ------------------------------------------------------------------ state

\* self.holdings and self.target_allocation of engine e: the dicts its references name
HoldingsOf(e) == hdicts[engines[e].holdings]

TargetOf(e) == tdicts[engines[e].target]

\* the caller has built the registry, one target dict and one holdings dict
Init ==
    /\ stock_objects \in RegistryInputs
    /\ tdicts \in {<<t>> : t \in TargetInputs}
    /\ hdicts \in {<<h>> : h \in HoldingInputs}
    /\ engines = <<>>
    /\ rebalance_plan = NoPlan
    /\ last = NoCall
    /\ nops = 0

\* __init__'s check sum(target_allocation.values()) == 1.0
SumIsOne(t) == SumVals(t.keys, t.val) = t.den

\* __init__'s loop: every target symbol is in the registry
KeysKnown(t) == \A i \in 1..Len(t.keys) : t.keys[i] \in DOMAIN stock_objects

\* the exception Portfolio.__init__ raises on target dict t, "" for none
InitRaises(t) ==
    IF ~SumIsOne(t) THEN "ValueError: sum"
    ELSE IF ~KeysKnown(t) THEN "ValueError: symbol"
    ELSE ""

\* Portfolio(ALL_STOCKS, tdicts[t], initial_holdings = hdicts[h]); h = 0 is None.
\* The engine keeps the references it is given; None makes a fresh empty dict.
Construct(t, h) ==
    /\ nops < MaxOps
    /\ nops' = nops + 1
    /\ last' = [NoCall EXCEPT !.op = "__init__", !.t = t, !.h = h,
                              !.raised = InitRaises(tdicts[t])]
    /\ IF InitRaises(tdicts[t]) # ""
          THEN UNCHANGED <<hdicts, engines>>
          ELSE IF h = 0
             THEN /\ Len(engines) < MaxEngines
                  /\ hdicts' = Append(hdicts, EmptyDict)
                  /\ engines' = Append(engines, [target |-> t, holdings |-> Len(hdicts) + 1])
             ELSE /\ Len(engines) < MaxEngines
                  /\ hdicts' = hdicts
                  /\ engines' = Append(engines, [target |-> t, holdings |-> h])
    /\ UNCHANGED <<stock_objects, tdicts, rebalance_plan>>

\* faulty variant of AddRaises: the registry is not consulted
AddNeverRaises(symbol) == ""

\* the exception add_position raises, "" for none
AddRaises(symbol) ==
    IF symbol \notin DOMAIN stock_objects THEN "ValueError: symbol" ELSE ""

\* faulty variant of add_position: shares >= 0 in place of shares > 0
add_position_zero(h, symbol, shares) ==
    IF shares >= 0 THEN DictSet(h, symbol, DictGet(h, symbol, 0) + shares) ELSE h

\* the holdings dict add_position leaves when it does not raise
add_position(h, symbol, shares) ==
    IF shares > 0 THEN DictSet(h, symbol, DictGet(h, symbol, 0) + shares) ELSE h

\* engines[e].add_position(symbol, shares)
Deposit(e, symbol, shares) ==
    /\ nops < MaxOps
    /\ nops' = nops + 1
    /\ last' = [NoCall EXCEPT !.op = "add_position", !.engine = e, !.symbol = symbol,
                              !.shares = shares, !.raised = AddRaises(symbol)]
    /\ hdicts' = IF AddRaises(symbol) # "" THEN hdicts
                 ELSE [hdicts EXCEPT ![engines[e].holdings] = add_position(@, symbol, shares)]
    /\ UNCHANGED <<stock_objects, tdicts, engines, rebalance_plan>>

\* rebalance_plan = engines[e].create_rebalance_plan()
CreatePlan(e) ==
    LET t == tdicts[engines[e].target]
        h == hdicts[engines[e].holdings]
    IN  /\ nops < MaxOps
        /\ nops' = nops + 1
        /\ last' = [NoCall EXCEPT !.op = "create_rebalance_plan", !.engine = e]
        /\ rebalance_plan' = <<PlanOf(t, h)>>
        /\ tdicts' = [tdicts EXCEPT ![engines[e].target] = TargetAfterPlan(t, h)]
        /\ UNCHANGED <<stock_objects, hdicts, engines>>

\* engines[e].execute_rebalance(rebalance_plan), of whatever plan the caller holds
Execute(e) ==
    LET h == hdicts[engines[e].holdings]
        plan == rebalance_plan[1]
    IN  /\ nops < MaxOps
        /\ rebalance_plan # NoPlan
        /\ nops' = nops + 1
        /\ last' = [NoCall EXCEPT !.op = "execute_rebalance", !.engine = e,
                                  !.fresh = (last.op = "create_rebalance_plan"
                                             /\ last.engine = e),
                                  !.trace = ExecutionTrace(h, plan)]
        /\ hdicts' = [hdicts EXCEPT ![engines[e].holdings] = execute_rebalance(h, plan)]
        /\ UNCHANGED <<stock_objects, tdicts, engines, rebalance_plan>>

DoConstruct == \E t \in 1..Len(tdicts), h \in 0..Len(hdicts) : Construct(t, h)

DoDeposit ==
    \E e \in 1..Len(engines), symbol \in AllSymbols, shares \in DepositShares :
        Deposit(e, symbol, shares)

DoCreatePlan == \E e \in 1..Len(engines) : CreatePlan(e)

DoExecute == \E e \in 1..Len(engines) : Execute(e)

Next == DoConstruct \/ DoDeposit \/ DoCreatePlan \/ DoExecute

Spec == Init /\ [][Next]_vars

\* ------------------------------------- allocation sums on a fine grid

\* one half of 1e-9: the grid on which sums near 1.0 are told apart
FineDen == 2 * TolInverse

FineOffsets == -3..3

\* two fractions near 1/2 each, and the same with an unknown third symbol at 0
FineTargetInputs ==
    {TDict(<<"A", "B">>, <<FineDen \div 2 + a, FineDen \div 2 + b>>, FineDen) :
        a \in FineOffsets, b \in FineOffsets}
    \cup {TDict(<<"A", "B", "X">>, <<FineDen \div 2 + a, FineDen \div 2, 0>>, FineDen) :
        a \in FineOffsets}

InitAlloc ==
    /\ stock_objects \in RegistryInputs
    /\ tdicts \in {<<t>> : t \in FineTargetInputs}
    /\ hdicts \in {<<h>> : h \in {EmptyDict, HDict(<<"A">>, <<8>>)}}
    /\ engines = <<>>
    /\ rebalance_plan = NoPlan
    /\ last = NoCall
    /\ nops = 0

\* construction alone, on target dicts whose sums lie within a few 1e-9 of 1.0
SpecAlloc == InitAlloc /\ [][DoConstruct]_vars

\* ================================================================ claims

EmptyPlan == [buy |-> <<>>, sell |-> <<>>]

PricesPositive == \A s \in Symbols : stock_objects[s] > 0

\* the target fraction of s over t.den, a symbol absent from the dict counting as 0
FractionOf(t, s) == IF s \in DOMAIN t.val THEN t.val[s] ELSE 0

\* the value of the shares of s held in h, in value-units
ValueOf(h, s) == DictGet(h, s, 0) * stock_objects[s]

\* a cents is n / m rounded to the nearest whole cent, a tie going to the even one
IsRounded(a, n, m) ==
    /\ 2 * Abs(a * m - n) <= m
    /\ (2 * Abs(a * m - n) = m) => (a % 2 = 0)

\* the orders of a list that name symbol s
OrdersFor(orders, s) == {i \in 1..Len(orders) : orders[i].symbol = s}

RECURSIVE SumAmounts(_, _, _)
\* the cents of the orders of one side applied among the first k of a trace
SumAmounts(trace, k, side) ==
    IF k = 0 THEN 0
    ELSE SumAmounts(trace, k - 1, side)
         + (IF trace[k].side = side /\ ~trace[k].skipped THEN trace[k].amount ELSE 0)

\* this step executes, on the engine that made it, the plan made by the step before
FreshExecuteStep ==
    /\ last.op = "create_rebalance_plan"
    /\ last'.op = "execute_rebalance"
    /\ last'.engine = last.engine

\* an order of at most 0.01 for each symbol and one more: what rounding and the
\* dead-band can leave behind
Negligible(plan, n) ==
    /\ \A i \in 1..Len(plan.buy) : plan.buy[i].amount_in_dollars <= n + 1
    /\ \A i \in 1..Len(plan.sell) : plan.sell[i].amount_in_dollars <= n + 1

\* after the step, every symbol's value is within 0.01 of the plan's total times its
\* fraction, and a second plan is empty or negligible
Rebalanced ==
    LET e == last.engine
        t == TargetOf(e)
        total == get_total_value(HoldingsOf(e))
        after == hdicts'[engines[e].holdings]
    IN  /\ \A s \in Symbols :
              Abs(ValueOf(after, s) * t.den - total * FractionOf(t, s))
                 <= DeadBandCents * UnitsPerCent * t.den
        /\ Negligible(PlanOf(t, after), Len(t.keys))

\* C1 as stated: from any non-zero total, plan then execute leaves every symbol's value
\* within the 0.01 dead-band of total x fraction, and a second plan empty or negligible.
C1_Original ==
    [][(FreshExecuteStep /\ get_total_value(HoldingsOf(last.engine)) # 0)
          => Rebalanced]_vars

\* C1 amended: the same, for a registry whose prices are all positive.
C1_RebalanceIdempotent ==
    [][(FreshExecuteStep /\ PricesPositive
        /\ get_total_value(HoldingsOf(last.engine)) # 0) => Rebalanced]_vars

\* C1 witness: a fresh plan with a buy and a sell has been executed at positive prices
C1_Witness ==
    /\ last.op = "execute_rebalance" /\ last.fresh /\ PricesPositive
    /\ \E i, j \in 1..Len(last.trace) :
          last.trace[i].side = "sell" /\ last.trace[j].side = "buy"

\* C2: no holdings entry of any dict is ever negative, and a sell order for more than
\* the shares held leaves the entry at 0.
C2_HoldingsNonNegative ==
    /\ \A d \in 1..Len(hdicts) : \A s \in DOMAIN hdicts[d] : hdicts[d][s] >= 0
    /\ last.op = "execute_rebalance" =>
          \A i \in 1..Len(last.trace) :
              last.trace[i].clamped => HoldingsOf(last.engine)[last.trace[i].symbol] = 0

\* C2 witness: a stale plan has been executed and one of its sells was clamped
C2_Witness ==
    /\ last.op = "execute_rebalance" /\ ~last.fresh
    /\ \E i \in 1..Len(last.trace) : last.trace[i].clamped

\* every sell of the trace comes before every buy
SellsFirst(trace) ==
    \A i, j \in 1..Len(trace) :
        (trace[i].side = "buy" /\ trace[j].side = "sell") => j < i

\* C3 as stated: executing a fresh plan applies every sell before any buy, and at every
\* point the amounts bought so far are at most the amounts sold so far.
C3_Original ==
    (last.op = "execute_rebalance" /\ last.fresh) =>
        /\ SellsFirst(last.trace)
        /\ \A k \in 0..Len(last.trace) :
              SumAmounts(last.trace, k, "buy") <= SumAmounts(last.trace, k, "sell")

\* C3 amended: every sell is applied before any buy, and at every point the amounts
\* bought so far exceed the amounts sold so far by less than 0.01 per symbol of the
\* completed target allocation.
C3_SellFirst ==
    (last.op = "execute_rebalance" /\ last.fresh) =>
        /\ SellsFirst(last.trace)
        /\ \A k \in 0..Len(last.trace) :
              SumAmounts(last.trace, k, "buy") - SumAmounts(last.trace, k, "sell")
                 < DeadBandCents * Len(TargetOf(last.engine).keys)

\* C3 witness: a fresh plan was executed whose buys outweigh its sells
C3_Witness ==
    /\ last.op = "execute_rebalance" /\ last.fresh
    /\ SumAmounts(last.trace, Len(last.trace), "buy")
          > SumAmounts(last.trace, Len(last.trace), "sell")
    /\ \E i \in 1..Len(last.trace) : last.trace[i].side = "sell"

\* C4 as stated: the engine's holdings are a copy, so a deposit or an execution on one
\* engine changes neither the caller's initial_holdings dict (hdicts[1], which the
\* caller built) nor the holdings of any other engine.
C4_NoAlias ==
    [][(last'.op \in {"add_position", "execute_rebalance"}) =>
          /\ hdicts'[1] = hdicts[1]
          /\ \A e \in 1..Len(engines) :
                e # last'.engine => hdicts'[engines[e].holdings] = HoldingsOf(e)]_vars

\* C5: a deposit of any shares for a symbol outside the registry raises and changes no
\* holdings and no target allocation; a construction whose target names a symbol
\* outside the registry raises and yields no engine.
C5_UnknownSymbol ==
    [][/\ (last'.op = "add_position" /\ last'.symbol \notin DOMAIN stock_objects) =>
             (last'.raised # "" /\ hdicts' = hdicts /\ tdicts' = tdicts)
       /\ (last'.op = "__init__"
           /\ \E i \in 1..Len(tdicts[last'.t].keys) :
                 tdicts[last'.t].keys[i] \notin DOMAIN stock_objects) =>
             (last'.raised # "" /\ engines' = engines
              /\ hdicts' = hdicts /\ tdicts' = tdicts)]_vars

\* C5 witness: a positive deposit for an unknown symbol was refused
C5_Witness ==
    /\ last.op = "add_position" /\ last.symbol = UnknownSymbol /\ last.shares > 0
    /\ last.raised # ""

\* the sum of the fractions is within 1e-9 of 1.0
WithinTolerance(t) == Abs(SumVals(t.keys, t.val) - t.den) <= t.den \div TolInverse

\* C6 as stated: with every key in the registry, construction succeeds exactly when the
\* fractions sum to 1.0 within 1e-9.
C6_SumTolerance ==
    (last.op = "__init__"
     /\ \A i \in 1..Len(tdicts[last.t].keys) :
           tdicts[last.t].keys[i] \in DOMAIN stock_objects) =>
        ((last.raised = "") <=> WithinTolerance(tdicts[last.t]))

\* the classification of symbol s that C7 states, for a difference of d / m cents
Classified(plan, s, d, m) ==
    LET b == OrdersFor(plan.buy, s)
        l == OrdersFor(plan.sell, s)
    IN  IF d > DeadBandCents * m
           THEN /\ Cardinality(b) = 1 /\ l = {}
                /\ \A i \in b : IsRounded(plan.buy[i].amount_in_dollars, d, m)
        ELSE IF d < -(DeadBandCents * m)
           THEN /\ Cardinality(l) = 1 /\ b = {}
                /\ \A i \in l : IsRounded(plan.sell[i].amount_in_dollars, -d, m)
        ELSE b = {} /\ l = {}

\* C7: for a non-zero total, the plan holds for every symbol of the completed target
\* allocation (the target's own symbols and every registry symbol, the missing ones at
\* 0.0) one buy of round(delta, 2) if delta > 0.01, one sell of round(|delta|, 2) if
\* delta < -0.01 and nothing otherwise, and it holds no other order.
C7_DeadBand ==
    [][(last'.op = "create_rebalance_plan"
        /\ get_total_value(HoldingsOf(last'.engine)) # 0) =>
          LET t == TargetOf(last'.engine)
              h == HoldingsOf(last'.engine)
              plan == rebalance_plan'[1]
              completed == SeqToSet(t.keys) \cup Symbols
          IN  /\ \A s \in completed :
                    Classified(plan, s,
                               get_total_value(h) * FractionOf(t, s) - ValueOf(h, s) * t.den,
                               t.den * UnitsPerCent)
              /\ \A i \in 1..Len(plan.buy) : plan.buy[i].symbol \in completed
              /\ \A i \in 1..Len(plan.sell) : plan.sell[i].symbol \in completed
              /\ SeqToSet(tdicts'[engines[last'.engine].target].keys) = completed]_vars

\* C7 witness: a plan with a buy and a sell, and a symbol at target 0.0 with no holdings
\* in neither list
C7_Witness ==
    /\ last.op = "create_rebalance_plan"
    /\ rebalance_plan[1].buy # <<>> /\ rebalance_plan[1].sell # <<>>
    /\ \E s \in Symbols :
          /\ FractionOf(TargetOf(last.engine), s) = 0
          /\ DictGet(HoldingsOf(last.engine), s, 0) = 0
          /\ OrdersFor(rebalance_plan[1].buy, s) = {}
          /\ OrdersFor(rebalance_plan[1].sell, s) = {}

\* the plan sells all of symbol s: one sell order, of its current value rounded
SellsAll(plan, h, s) ==
    \E i \in 1..Len(plan.sell) :
        /\ plan.sell[i].symbol = s
        /\ IsRounded(plan.sell[i].amount_in_dollars, ValueOf(h, s), UnitsPerCent)

\* C8 as stated: the plan sells all of every registry symbol held at a target of 0
\* (explicit, or missing from the target allocation).
C8_Original ==
    last.op = "create_rebalance_plan" =>
        \A s \in Symbols :
            (DictGet(HoldingsOf(last.engine), s, 0) # 0
             /\ FractionOf(TargetOf(last.engine), s) = 0)
               => SellsAll(rebalance_plan[1], HoldingsOf(last.engine), s)

\* C8 amended: the plan sells all of every registry symbol whose target is 0 and whose
\* held value exceeds the 0.01 dead-band.
C8_FullLiquidation ==
    last.op = "create_rebalance_plan" =>
        \A s \in Symbols :
            (ValueOf(HoldingsOf(last.engine), s) > DeadBandCents * UnitsPerCent
             /\ FractionOf(TargetOf(last.engine), s) = 0)
               => SellsAll(rebalance_plan[1], HoldingsOf(last.engine), s)

\* C8 witness: a plan that sells all of a held symbol whose target is 0
C8_Witness ==
    /\ last.op = "create_rebalance_plan"
    /\ \E s \in Symbols :
          /\ ValueOf(HoldingsOf(last.engine), s) > DeadBandCents * UnitsPerCent
          /\ FractionOf(TargetOf(last.engine), s) = 0
          /\ SellsAll(rebalance_plan[1], HoldingsOf(last.engine), s)

\* C9: a deposit of shares <= 0 for a registry symbol changes no holdings dict at all;
\* a deposit of shares > 0 adds shares to the symbol's entry (0 if absent) and leaves
\* every other entry, and every other symbol's absence, as it was.
C9_DepositFrame ==
    [][(last'.op = "add_position" /\ last'.symbol \in DOMAIN stock_objects) =>
          LET d == engines[last'.engine].holdings
          IN  IF last'.shares <= 0 THEN hdicts' = hdicts
              ELSE /\ hdicts'[d][last'.symbol]
                         = DictGet(hdicts[d], last'.symbol, 0) + last'.shares
                   /\ DOMAIN hdicts'[d] = DOMAIN hdicts[d] \cup {last'.symbol}
                   /\ \A s \in DOMAIN hdicts[d] \ {last'.symbol} :
                         hdicts'[d][s] = hdicts[d][s]
                   /\ \A o \in 1..Len(hdicts) : o # d => hdicts'[o] = hdicts[o]]_vars

\* C9 witness: a non-positive deposit for a registry symbol the engine does not hold
C9_Witness ==
    /\ last.op = "add_position" /\ last.shares <= 0
    /\ last.symbol \in Symbols
    /\ last.symbol \notin DOMAIN HoldingsOf(last.engine)

\* C10: a plan made while nothing held has any value (no holdings, or every held share
\* priced at 0) is the empty plan, whatever the target allocation.
C10_EmptyPlanAtZero ==
    (last.op = "create_rebalance_plan"
     /\ \A s \in DOMAIN HoldingsOf(last.engine) : ValueOf(HoldingsOf(last.engine), s) = 0)
        => rebalance_plan = <<EmptyPlan>>

\* C10 witness: a plan was made by an engine holding only shares priced at 0
C10_Witness ==
    /\ last.op = "create_rebalance_plan"
    /\ \E s \in DOMAIN HoldingsOf(last.engine) : HoldingsOf(last.engine)[s] > 0
    /\ get_total_value(HoldingsOf(last.engine)) = 0

====
